---- MODULE Spec2Model ----
(***************************************************************************)
(* Model of src/probe/probe.py: the probe plugin's scheduler thread        *)
(* (schedule, poll_payments, complete_probe, clear_temporary_exclusion),   *)
(* the detached probe threads (start_probe, probe, choose_target), the     *)
(* sqlite tables (targets, probes) and the in-memory shared containers     *)
(* (exclusions, temporary_exclusions, plugin.pending_probes).              *)
(*                                                                         *)
(* Atomicity: a thread can be preempted only while it waits for an RPC     *)
(* (getroute, sendpay, listsendpays, waitsendpay) or sleeps; the code      *)
(* between two such points is one action.  A session's writes become       *)
(* visible to the other sessions at its s.commit().                        *)
(***************************************************************************)
EXTENDS Integers, Sequences, FiniteSets

\* ------------------------------------------------------------- bounds
MaxRuns == 7            \* iterations of the scheduler's while loop explored
MaxTime == 331          \* sleeps that would end later are not explored
MaxLongRuns == 8        \* the same two bounds, for SpecExclusions
MaxLongTime == 627
MaxThreads == 2         \* probe threads whose steps are followed
ProbeInterval == 1      \* value given to the option probe-interval
ExclusionDuration == 1  \* value given to the option probe-exclusion-duration
Oversleep == 296        \* by how much a sleep(t) may overrun t

\* ---------------------------------------------------------- constants
MAX_PROBES_PER_TARGET == 20
QueryLimit == 10
WarmUp == 30
ClearInterval == 300
PollInterval == 1
NO_ROUTE == -1
UNKNOWN_PAYMENT_DETAILS == 16399
NULL == 0   \* None / SQL NULL: no target, edge, failcode or timestamp is 0

PermanentCodes == {16392, 16394}
TemporaryCodes == {21, 4103}
\* failcodes the node can report; 4100 stands for every code without a branch
FailCodes == PermanentCodes \cup TemporaryCodes \cup {UNKNOWN_PAYMENT_DETAILS, 4100}

\* The network: the node ids listnodes() returned at init, and the one
\* channel/direction pair ("{erring_channel}/{erring_direction}") routes use
Targets == {1, 2}
Edges == {1}
Tasks == {"clear_temporary_exclusion", "start_probe", "poll_payments"}

VARIABLES
    now,                    \* time()
    final,                  \* targets table: id -> Target.final
    probes,                 \* probes table: row i is the Probe with id i
    exclusions,             \* the list exclusions
    temporary_exclusions,   \* the dict temporary_exclusions: key -> expiry
    pending_probes,         \* plugin.pending_probes, as the list of probe ids
    payments,               \* the node's payments: ids handed to sendpay
    next_runs,              \* the heap next_runs of <<time, function, interval>>
    sched_pc,               \* where the scheduler thread is
    poll_idx,               \* position of poll_payments' list iterator
    poll_probe,             \* probe removed by poll_payments, in complete_probe
    runs,                   \* iterations of the scheduler loop started
    threads                 \* the probe threads started by start_probe

vars == <<now, final, probes, exclusions, temporary_exclusions, pending_probes,
          payments, next_runs, sched_pc, poll_idx, poll_probe, runs, threads>>

\* ------------------------------------------------------------ helpers
Range(s) == {s[i] : i \in DOMAIN s}

\* Variant: the entry left in the list
RemoveNothing(s, x) == s

\* list.remove(x): drops the first element equal to x
Remove(s, x) ==
    LET k == CHOOSE i \in DOMAIN s :
                 s[i] = x /\ \A j \in 1..(i - 1) : s[j] # x
    IN  SubSeq(s, 1, k - 1) \o SubSeq(s, k + 1, Len(s))

\* A new Probe(destination=node.id, ...): every other column is NULL
NewProbe(node) ==
    [destination |-> node, route |-> {}, erring_channel |-> NULL,
     failcode |-> NULL, finished_at |-> NULL]

\* A probe thread as start_probe creates it, about to call choose_target
NewThread == [pc |-> "choose", node |-> NULL, exclude |-> {}, probe |-> NULL]

\* A probe thread that returned: what it held is garbage
Ended(pc) == [pc |-> pc, node |-> NULL, exclude |-> {}, probe |-> NULL]

\* exclude=exclusions + list(temporary_exclusions.keys())
ExcludeArg == Range(exclusions) \cup DOMAIN temporary_exclusions

\* Variant: the query without .filter(Target.final == False)
PotNodesUnfiltered ==
    {n \in Targets : Cardinality({m \in Targets : m < n}) < QueryLimit}

\* s.query(Target).order_by(Target.id).filter(Target.final == False).limit(10)
PotNodes ==
    LET open == {n \in Targets : ~final[n]}
    IN  {n \in open : Cardinality({m \in open : m < n}) < QueryLimit}

\* len(node.probes) after the autoflush of p: the rows of the table for that
\* destination, and p itself
ProbeCount(node) ==
    Cardinality({i \in DOMAIN probes : probes[i].destination = node}) + 1

Init ==
    /\ now = 0
    /\ final = [n \in Targets |-> FALSE]
    /\ probes = <<>>
    /\ exclusions = <<>>
    /\ temporary_exclusions = <<>>
    /\ pending_probes = <<>>
    /\ payments = {}
    /\ next_runs = {}
    /\ sched_pc = "warmup"
    /\ poll_idx = 0
    /\ poll_probe = NULL
    /\ runs = 0
    /\ threads = <<>>

\* ---------------------------------------------------- scheduler thread
\* schedule: sleep(30), then the heap of the three tasks
Warmup ==
    /\ sched_pc = "warmup"
    /\ now' = now + WarmUp
    /\ next_runs' = {<<now' + ClearInterval, "clear_temporary_exclusion", ClearInterval>>,
                     <<now' + ProbeInterval, "start_probe", ProbeInterval>>,
                     <<now' + PollInterval, "poll_payments", PollInterval>>}
    /\ sched_pc' = "loop"
    /\ UNCHANGED <<final, probes, exclusions, temporary_exclusions, pending_probes,
                   payments, poll_idx, poll_probe, runs, threads>>

\* heapq.heappop: an entry of the smallest time (times are floats in the code
\* and practically never equal; entries of equal time pop in either order)
IsMin(n) == n \in next_runs /\ \A m \in next_runs : n[1] <= m[1]

\* t = n[0] - time(); if t > 0: sleep(t).  sleep returns after at least t.
Slept(n, d) == IF n[1] - now > 0 THEN n[1] + d ELSE now

\* Only a sleep that takes place can overrun
Overruns(n, d) == d > 0 => n[1] - now > 0

\* heapq.heappush(next_runs, (time() + n[2], n[1], n[2]))
Pushed(heap, n, t) == heap \cup {<<t + n[3], n[2], n[3]>>}

\* Variant: the comparison of clear_temporary_exclusion turned around (v > time())
UnexpiredTurned(t) ==
    LET keep == {k \in DOMAIN temporary_exclusions : ~(temporary_exclusions[k] > t)}
    IN  [k \in keep |-> temporary_exclusions[k]]

\* The entries of temporary_exclusions that clear_temporary_exclusion keeps
\* at time t: it deletes those with v < time()
Unexpired(t) ==
    LET keep == {k \in DOMAIN temporary_exclusions : ~(temporary_exclusions[k] < t)}
    IN  [k \in keep |-> temporary_exclusions[k]]

\* One iteration of the loop whose task is clear_temporary_exclusion
RunClear(n, d) ==
    /\ sched_pc = "loop"
    /\ IsMin(n) /\ n[2] = "clear_temporary_exclusion"
    /\ Overruns(n, d)
    /\ now' = Slept(n, d)
    /\ temporary_exclusions' = Unexpired(now')
    /\ next_runs' = Pushed(next_runs \ {n}, n, now')
    /\ runs' = runs + 1
    /\ UNCHANGED <<final, probes, exclusions, pending_probes, payments, sched_pc,
                   poll_idx, poll_probe, threads>>

\* start_probe: a new daemon thread running probe().  Beyond MaxThreads the
\* thread is started but its steps are not followed: it stays at its first
\* statement, as a thread that the interpreter never schedules does.
Started == IF Len(threads) < MaxThreads THEN Append(threads, NewThread) ELSE threads

\* One iteration of the loop whose task is start_probe
RunStartProbe(n, d) ==
    /\ sched_pc = "loop"
    /\ IsMin(n) /\ n[2] = "start_probe"
    /\ Overruns(n, d)
    /\ now' = Slept(n, d)
    /\ threads' = Started
    /\ next_runs' = Pushed(next_runs \ {n}, n, now')
    /\ runs' = runs + 1
    /\ UNCHANGED <<final, probes, exclusions, temporary_exclusions, pending_probes,
                   payments, sched_pc, poll_idx, poll_probe>>

\* An iteration of the loop whose task is poll_payments: up to the for loop
RunPoll(n, d) ==
    /\ sched_pc = "loop"
    /\ IsMin(n) /\ n[2] = "poll_payments"
    /\ Overruns(n, d)
    /\ now' = Slept(n, d)
    /\ next_runs' = next_runs \ {n}
    /\ sched_pc' = "poll"
    /\ poll_idx' = 0
    /\ runs' = runs + 1
    /\ UNCHANGED <<final, probes, exclusions, temporary_exclusions, pending_probes,
                   payments, poll_probe, threads>>

\* for probe in plugin.pending_probes: listsendpays says 'pending': continue
PollPending ==
    /\ sched_pc = "poll"
    /\ poll_idx < Len(pending_probes)
    /\ poll_idx' = poll_idx + 1
    /\ UNCHANGED <<now, final, probes, exclusions, temporary_exclusions,
                   pending_probes, payments, next_runs, sched_pc, poll_probe,
                   runs, threads>>

\* listsendpays says the payment is over: plugin.pending_probes.remove(probe)
\* and the callback complete_probe is entered, up to its waitsendpay
PollRemove ==
    /\ sched_pc = "poll"
    /\ poll_idx < Len(pending_probes)
    /\ poll_probe' = pending_probes[poll_idx + 1]
    /\ pending_probes' = Remove(pending_probes, pending_probes[poll_idx + 1])
    /\ poll_idx' = poll_idx + 1
    /\ sched_pc' = "complete"
    /\ UNCHANGED <<now, final, probes, exclusions, temporary_exclusions,
                   payments, next_runs, runs, threads>>

\* listsendpays raises RpcError: nothing in poll_payments or schedule catches
\* it, the scheduler thread ends with the task popped and not pushed back
PollRaise ==
    /\ sched_pc = "poll"
    /\ poll_idx < Len(pending_probes)
    /\ sched_pc' = "dead"
    /\ UNCHANGED <<now, final, probes, exclusions, temporary_exclusions,
                   pending_probes, payments, next_runs, poll_idx, poll_probe,
                   runs, threads>>

\* The list iterator is exhausted: poll_payments returns, the task is pushed
PollEnd ==
    /\ sched_pc = "poll"
    /\ ~(poll_idx < Len(pending_probes))
    /\ next_runs' = Pushed(next_runs, <<now, "poll_payments", PollInterval>>, now)
    /\ sched_pc' = "loop"
    /\ UNCHANGED <<now, final, probes, exclusions, temporary_exclusions,
                   pending_probes, payments, poll_idx, poll_probe, runs, threads>>

\* Variant: the first branch of complete_probe knowing one of its two codes
ExclusionsAfterOneCode(code, edge) ==
    IF code = 16394 THEN Append(exclusions, edge) ELSE exclusions

\* complete_probe's three branches on p.failcode, as what they leave behind
ExclusionsAfter(code, edge) ==
    IF code \in PermanentCodes THEN Append(exclusions, edge) ELSE exclusions

\* Variant: the second branch keeping the expiry of a key it already holds
TemporaryAfterKeepFirst(code, edge, t) ==
    IF code \in TemporaryCodes /\ edge \notin DOMAIN temporary_exclusions
    THEN [k \in DOMAIN temporary_exclusions \cup {edge} |->
             IF k = edge THEN t + ExclusionDuration ELSE temporary_exclusions[k]]
    ELSE temporary_exclusions

TemporaryAfter(code, edge, t) ==
    IF code \in TemporaryCodes
    THEN [k \in DOMAIN temporary_exclusions \cup {edge} |->
             IF k = edge THEN t + ExclusionDuration ELSE temporary_exclusions[k]]
    ELSE temporary_exclusions

\* Variant: the third branch without t.final = True
FinalAfterUnmarked(code, dest) == final

FinalAfter(code, dest) ==
    IF code = UNKNOWN_PAYMENT_DETAILS THEN [final EXCEPT ![dest] = TRUE] ELSE final

\* complete_probe when waitsendpay raises RpcError with failcode code at edge
CompleteFailed(code, edge) ==
    /\ sched_pc = "complete"
    /\ edge \in probes[poll_probe].route
    /\ probes' = [probes EXCEPT ![poll_probe].erring_channel = edge,
                                ![poll_probe].failcode = code,
                                ![poll_probe].finished_at = now]
    /\ exclusions' = ExclusionsAfter(code, edge)
    /\ temporary_exclusions' = TemporaryAfter(code, edge, now)
    /\ final' = FinalAfter(code, probes[poll_probe].destination)
    /\ poll_probe' = NULL
    /\ sched_pc' = "poll"
    /\ UNCHANGED <<now, pending_probes, payments, next_runs, poll_idx, runs, threads>>

\* complete_probe when waitsendpay returns: p.failcode stays None
CompleteSucceeded ==
    /\ sched_pc = "complete"
    /\ probes' = [probes EXCEPT ![poll_probe].finished_at = now]
    /\ poll_probe' = NULL
    /\ sched_pc' = "poll"
    /\ UNCHANGED <<now, final, exclusions, temporary_exclusions, pending_probes,
                   payments, next_runs, poll_idx, runs, threads>>

\* ------------------------------------------------------- probe threads
\* choose_target: the query finds no target, probe() prints and exits
ChooseNone(t) ==
    /\ threads[t].pc = "choose"
    /\ PotNodes = {}
    /\ threads' = [threads EXCEPT ![t] = Ended("exit")]
    /\ UNCHANGED <<now, final, probes, exclusions, temporary_exclusions,
                   pending_probes, payments, next_runs, sched_pc, poll_idx,
                   poll_probe, runs>>

\* choose_target: random.choice(pot_nodes), up to the call of getroute
ChooseNode(t, node) ==
    /\ threads[t].pc = "choose"
    /\ node \in PotNodes
    /\ threads' = [threads EXCEPT ![t] = [pc |-> "getroute", node |-> node,
                                          exclude |-> ExcludeArg, probe |-> NULL]]
    /\ UNCHANGED <<now, final, probes, exclusions, temporary_exclusions,
                   pending_probes, payments, next_runs, sched_pc, poll_idx,
                   poll_probe, runs>>

\* The target's flag after the commit of a probe with a route
FinalAfterRoute(node) ==
    IF ProbeCount(node) > MAX_PROBES_PER_TARGET
    THEN [final EXCEPT ![node] = TRUE] ELSE final

\* Variant: choose_target returning (route, p) without s.commit()
CommitRouteMissing(node, route) == probes

\* The probes table after s.commit() of the Probe with its route (line 134)
CommitRoute(node, route) ==
    Append(probes, [NewProbe(node) EXCEPT !.route = route])

\* getroute returns a route avoiding the excluded edges: the probe is
\* committed with it, choose_target returns (route, p)
RouteFound(t, route) ==
    /\ threads[t].pc = "getroute"
    /\ route # {} /\ route \subseteq Edges \ threads[t].exclude
    /\ probes' = CommitRoute(threads[t].node, route)
    /\ final' = FinalAfterRoute(threads[t].node)
    /\ threads' = [threads EXCEPT ![t] = [pc |-> "sendpay", node |-> NULL,
                                          exclude |-> {}, probe |-> Len(probes')]]
    /\ UNCHANGED <<now, exclusions, temporary_exclusions, pending_probes, payments,
                   next_runs, sched_pc, poll_idx, poll_probe, runs>>

\* Variant: the except RpcError branch without node.final = True
NoRouteCommitNotFinal(node) ==
    [row |-> [NewProbe(node) EXCEPT !.failcode = NO_ROUTE], final |-> final]

\* The row and the flag that the except RpcError branch commits
NoRouteCommit(node) ==
    [row |-> [NewProbe(node) EXCEPT !.failcode = NO_ROUTE],
     final |-> [final EXCEPT ![node] = TRUE]]

\* getroute raises RpcError: failcode -1, the target final, and around the
\* while loop again
RouteFailed(t) ==
    /\ threads[t].pc = "getroute"
    /\ probes' = Append(probes, NoRouteCommit(threads[t].node).row)
    /\ final' = NoRouteCommit(threads[t].node).final
    /\ threads' = [threads EXCEPT ![t] = NewThread]
    /\ UNCHANGED <<now, exclusions, temporary_exclusions, pending_probes, payments,
                   next_runs, sched_pc, poll_idx, poll_probe, runs>>

\* sendpay accepts the payment: the probe is appended to pending_probes
SendPayAccepted(t) ==
    /\ threads[t].pc = "sendpay"
    /\ payments' = payments \cup {threads[t].probe}
    /\ pending_probes' = Append(pending_probes, threads[t].probe)
    /\ threads' = [threads EXCEPT ![t] = Ended("done")]
    /\ UNCHANGED <<now, final, probes, exclusions, temporary_exclusions,
                   next_runs, sched_pc, poll_idx, poll_probe, runs>>

\* The row that probe()'s except RpcError branch commits
Rejected(p, code, edge) == [p EXCEPT !.erring_channel = edge, !.failcode = code]

\* sendpay raises RpcError with failcode code at edge
SendPayRejected(t, code, edge) ==
    /\ threads[t].pc = "sendpay"
    /\ edge \in probes[threads[t].probe].route
    /\ payments' = payments \cup {threads[t].probe}
    /\ probes' = [probes EXCEPT ![threads[t].probe] = Rejected(@, code, edge)]
    /\ threads' = [threads EXCEPT ![t] = Ended("done")]
    /\ UNCHANGED <<now, final, exclusions, temporary_exclusions, pending_probes,
                   next_runs, sched_pc, poll_idx, poll_probe, runs>>

\* The iterations of the scheduler loop that are explored: the first maxRuns,
\* as long as they start by maxTime
Explored(maxRuns, maxTime, n, d) == runs < maxRuns /\ Slept(n, d) <= maxTime

Next ==
    \/ Warmup
    \/ \E n \in next_runs, d \in {0, Oversleep} :
           Explored(MaxRuns, MaxTime, n, d) /\ RunClear(n, d)
    \/ \E n \in next_runs, d \in {0, Oversleep} :
           Explored(MaxRuns, MaxTime, n, d) /\ RunStartProbe(n, d)
    \/ \E n \in next_runs, d \in {0, Oversleep} :
           Explored(MaxRuns, MaxTime, n, d) /\ RunPoll(n, d)
    \/ PollPending
    \/ PollRemove
    \/ PollRaise
    \/ PollEnd
    \/ \E code \in FailCodes, edge \in Edges : CompleteFailed(code, edge)
    \/ CompleteSucceeded
    \/ \E t \in DOMAIN threads : ChooseNone(t)
    \/ \E t \in DOMAIN threads, node \in Targets : ChooseNode(t, node)
    \/ \E t \in DOMAIN threads, route \in SUBSET Edges : RouteFound(t, route)
    \/ \E t \in DOMAIN threads : RouteFailed(t)
    \/ \E t \in DOMAIN threads : SendPayAccepted(t)
    \/ \E t \in DOMAIN threads, code \in FailCodes, edge \in Edges :
           SendPayRejected(t, code, edge)

Spec == Init /\ [][Next]_vars

\* The program with the collaborators of the exclusion tests: getroute answers
\* with a route, sendpay accepts the payment, listsendpays answers and the
\* payment fails.  The scheduler is followed for longer.
ExclusionsNext ==
    \/ Warmup
    \/ \E n \in next_runs, d \in {0, Oversleep} :
           Explored(MaxLongRuns, MaxLongTime, n, d) /\ RunClear(n, d)
    \/ \E n \in next_runs, d \in {0, Oversleep} :
           Explored(MaxLongRuns, MaxLongTime, n, d) /\ RunStartProbe(n, d)
    \/ \E n \in next_runs, d \in {0, Oversleep} :
           Explored(MaxLongRuns, MaxLongTime, n, d) /\ RunPoll(n, d)
    \/ PollPending
    \/ PollRemove
    \/ PollEnd
    \/ \E code \in FailCodes, edge \in Edges : CompleteFailed(code, edge)
    \/ \E t \in DOMAIN threads, node \in Targets : ChooseNode(t, node)
    \/ \E t \in DOMAIN threads, route \in SUBSET Edges : RouteFound(t, route)
    \/ \E t \in DOMAIN threads : SendPayAccepted(t)

SpecExclusions == Init /\ [][ExclusionsNext]_vars

\* A Probe row left by an earlier run of the plugin: dispatched, failed with a
\* code that complete_probe has no branch for, finished before this run
FinishedProbe(node) ==
    [destination |-> node, route |-> Edges, erring_channel |-> 1,
     failcode |-> 4100, finished_at |-> -1]

\* init() on a database that an earlier run has filled: the targets are not
\* seeded again, and the first target has MAX_PROBES_PER_TARGET finished
\* probes, which left it non-final
InitRestarted ==
    /\ now = 0
    /\ final = [n \in Targets |-> FALSE]
    /\ probes = [i \in 1..MAX_PROBES_PER_TARGET |-> FinishedProbe(1)]
    /\ exclusions = <<>>
    /\ temporary_exclusions = <<>>
    /\ pending_probes = <<>>
    /\ payments = 1..MAX_PROBES_PER_TARGET
    /\ next_runs = {}
    /\ sched_pc = "warmup"
    /\ poll_idx = 0
    /\ poll_probe = NULL
    /\ runs = 0
    /\ threads = <<>>

SpecRestarted == InitRestarted /\ [][Next]_vars

\* ------------------------------------------- the scheduler, clock left out
\* For what happens eventually the model follows the scheduler loop without
\* its clock: the heap and the sleeps decide when a task runs, not whether
\* it runs again, so an iteration may run any of the three tasks.
\* An iteration of the loop whose task is poll_payments
LoopPoll ==
    /\ sched_pc = "loop"
    /\ sched_pc' = "poll"
    /\ poll_idx' = 0
    /\ UNCHANGED <<now, final, probes, exclusions, temporary_exclusions,
                   pending_probes, payments, next_runs, poll_probe, runs, threads>>

\* An iteration of the loop whose task is start_probe
LoopStartProbe ==
    /\ sched_pc = "loop"
    /\ threads' = Started
    /\ UNCHANGED <<now, final, probes, exclusions, temporary_exclusions,
                   pending_probes, payments, next_runs, sched_pc, poll_idx,
                   poll_probe, runs>>

\* An iteration of the loop whose task is clear_temporary_exclusion: the
\* entries that time() has passed, any of them, are deleted
LoopClear(keep) ==
    /\ sched_pc = "loop"
    /\ keep \subseteq DOMAIN temporary_exclusions
    /\ temporary_exclusions' = [k \in keep |-> temporary_exclusions[k]]
    /\ UNCHANGED <<now, final, probes, exclusions, pending_probes, payments,
                   next_runs, sched_pc, poll_idx, poll_probe, runs, threads>>

\* The ids a row of the probes table can have
ProbeIds == 1..(MaxThreads * (Cardinality(Targets) + 1))

\* listsendpays reports a status other than pending for probe i
PollRemoveOf(i) == PollRemove /\ poll_probe' = i

LiveNext ==
    \/ Warmup
    \/ LoopPoll
    \/ LoopStartProbe
    \/ \E keep \in SUBSET Edges : LoopClear(keep)
    \/ PollPending
    \/ PollRemove
    \/ PollEnd
    \/ \E code \in FailCodes, edge \in Edges : CompleteFailed(code, edge)
    \/ CompleteSucceeded
    \/ \E t \in DOMAIN threads : ChooseNone(t)
    \/ \E t \in DOMAIN threads, node \in Targets : ChooseNode(t, node)
    \/ \E t \in DOMAIN threads, route \in SUBSET Edges : RouteFound(t, route)
    \/ \E t \in DOMAIN threads : RouteFailed(t)
    \/ \E t \in DOMAIN threads : SendPayAccepted(t)
    \/ \E t \in DOMAIN threads, code \in FailCodes, edge \in Edges :
           SendPayRejected(t, code, edge)

\* The scheduler thread keeps running and no RPC of it raises or blocks for
\* ever: sleep(30) ends, poll_payments comes up again (every second),
\* listsendpays and waitsendpay answer, and the status of every payment is at
\* some time, and from then on, not pending.
LiveFairness ==
    /\ WF_vars(Warmup)
    /\ WF_vars(LoopPoll)
    /\ WF_vars(PollPending \/ PollRemove)
    /\ WF_vars(PollEnd)
    /\ WF_vars(CompleteSucceeded
                 \/ \E code \in FailCodes, edge \in Edges : CompleteFailed(code, edge))
    /\ \A i \in ProbeIds : SF_vars(PollRemoveOf(i))

SpecLive == Init /\ [][LiveNext]_vars /\ LiveFairness

\* ------------------------------------------------------------- claims
\* Steps of the behaviour, recognised by what they change
\* complete_probe commits the classification of probe i
Classified(i) == probes[i].finished_at = NULL /\ probes'[i].finished_at # NULL

\* probe()'s except branch commits the failcode of a synchronous rejection
SyncRejected(t) ==
    threads[t].pc = "sendpay" /\ probes'[threads[t].probe].failcode # NULL

\* a session commits a new row of the probes table
Inserted == Len(probes') > Len(probes)

\* the scheduler ran clear_temporary_exclusion
Cleared ==
    \E n \in next_runs : n[2] = "clear_temporary_exclusion" /\ n \notin next_runs'

\* thread t calls getroute
RouteAsked(t) == threads[t].pc = "choose" /\ threads'[t].pc = "getroute"

\* thread t's call of choose_target ends its query
Queried(t) == threads[t].pc = "choose" /\ threads'[t].pc # "choose"

\* thread t's getroute raised RpcError
RouteRaised(t) == threads[t].pc = "getroute" /\ threads'[t].pc = "choose"

AllFinal == \A n \in Targets : final[n]

\* C1: no Probe row is ever committed for a Target whose final flag is
\* already true at the moment of the commit.
C1_NeverProbesFinalTarget ==
    [][Inserted => ~final[probes'[Len(probes')].destination]]_vars

\* C2: whatever a task's action does, the scheduler loop goes on: after the
\* warm-up each of the three tasks is in the heap or is the one being run.
C2_SchedulerKeepsAllTasks ==
    sched_pc # "warmup" =>
        \A task \in Tasks :
            \/ \E n \in next_runs : n[2] = task
            \/ task = "poll_payments" /\ sched_pc \in {"poll", "complete"}

\* C3: a synchronous rejection of sendpay with failcode c at edge e leaves the
\* exclusions, the temporary exclusions, the Target's final flag and the
\* Probe's finished_at as complete_probe leaves them for the same c and e.
C3_SyncRejectionLikeAsync ==
    [][\A t \in DOMAIN threads :
          SyncRejected(t) =>
              LET p == threads[t].probe
                  c == probes'[p].failcode
                  e == probes'[p].erring_channel
              IN  /\ exclusions' = ExclusionsAfter(c, e)
                  /\ temporary_exclusions' = TemporaryAfter(c, e, now)
                  /\ final' = FinalAfter(c, probes[p].destination)
                  /\ probes'[p].finished_at # NULL]_vars

\* C4, first part: a classification with failcode 21 or 4103 at edge E at time
\* t puts E in the temporary exclusions with expiry t + the configured duration.
C4_Placed ==
    \A i \in DOMAIN probes :
        Classified(i) /\ probes'[i].failcode \in TemporaryCodes =>
            /\ probes'[i].erring_channel \in DOMAIN temporary_exclusions'
            /\ temporary_exclusions'[probes'[i].erring_channel] = now + ExclusionDuration

\* C4, second part: every getroute call is given the temporary exclusions of
\* the moment among its forbidden edges.
C4_Forbidden ==
    \A t \in DOMAIN threads :
        RouteAsked(t) => DOMAIN temporary_exclusions \subseteq threads'[t].exclude

\* A classification at time t or later has put edge e in the permanent
\* exclusions (one that puts it in the temporary ones moves its expiry)
ReAddedSince(e, t) ==
    \E j \in DOMAIN probes :
        /\ probes[j].erring_channel = e /\ probes[j].failcode \in PermanentCodes
        /\ probes[j].finished_at # NULL /\ probes[j].finished_at >= t

\* C4, third part as claimed: after a run of the cleanup task, an edge whose
\* expiry the time has passed is excluded no more, unless a classification
\* later than the one that set this expiry has excluded it again.
C4_ExpiredNotExcluded ==
    Cleared =>
        \A e \in DOMAIN temporary_exclusions :
            temporary_exclusions[e] < now' =>
                \/ e \notin ExcludeArg'
                \/ ReAddedSince(e, temporary_exclusions[e] - ExclusionDuration)

\* C4, third part as amended: after a run of the cleanup task, an edge whose
\* expiry the time has passed is in the temporary exclusions no more, and is
\* still a forbidden edge exactly if it is in the permanent exclusions.
C4_ExpiredNotTemporary ==
    Cleared =>
        \A e \in DOMAIN temporary_exclusions :
            temporary_exclusions[e] < now' =>
                /\ e \notin DOMAIN temporary_exclusions'
                /\ e \in ExcludeArg' <=> e \in Range(exclusions)

C5_PermanentAppendOnly ==
    [][/\ \A i \in DOMAIN probes :
              Classified(i) /\ probes'[i].failcode \in PermanentCodes =>
                  exclusions' = Append(exclusions, probes'[i].erring_channel)
       /\ Len(exclusions') >= Len(exclusions)
       /\ SubSeq(exclusions', 1, Len(exclusions)) = exclusions]_vars

\* C5's case: an edge excluded by a 16392 classification is still in the list
\* after the cleanup task has run and a later probe has been classified.
C5_Witness ==
    /\ \E i \in DOMAIN probes :
           /\ probes[i].failcode = 16392 /\ probes[i].finished_at # NULL
           /\ probes[i].erring_channel \in Range(exclusions)
           /\ \E j \in DOMAIN probes :
                  probes[j].finished_at # NULL /\ probes[j].finished_at > probes[i].finished_at
    /\ \E n \in next_runs :
           n[2] = "clear_temporary_exclusion" /\ n[1] > WarmUp + ClearInterval

\* C6: no edge is in the permanent and in the temporary exclusions at once.
C6_ExclusionsDisjoint ==
    Range(exclusions) \cap DOMAIN temporary_exclusions = {}

\* C7: a Probe with a recorded failcode (-1 for no route and the code of a
\* synchronous rejection included) has finished_at set, and finished_at is
\* set only on a Probe whose payment is over.
C7_FinishedIffOutcome ==
    \A i \in DOMAIN probes :
        /\ probes[i].failcode # NULL => probes[i].finished_at # NULL
        /\ probes[i].finished_at # NULL => i \in payments

\* C8: every Probe row with failcode NULL and finished_at NULL has an entry in
\* plugin.pending_probes.
C8_PendingIsTracked ==
    \A i \in DOMAIN probes :
        probes[i].failcode = NULL /\ probes[i].finished_at = NULL =>
            i \in Range(pending_probes)

\* C9: when getroute fails for the chosen Target, the commit that records the
\* Probe with failcode -1 marks the Target final; such a Probe is never handed
\* to sendpay and never gets an entry in plugin.pending_probes.
C9_NoRouteIsTerminal ==
    /\ [][\A t \in DOMAIN threads :
             RouteRaised(t) =>
                 /\ Inserted
                 /\ probes'[Len(probes')].destination = threads[t].node
                 /\ probes'[Len(probes')].failcode = NO_ROUTE
                 /\ final'[threads[t].node]]_vars
    /\ [](\A i \in DOMAIN probes :
             probes[i].failcode = NO_ROUTE =>
                 /\ final[probes[i].destination]
                 /\ i \notin payments
                 /\ i \notin Range(pending_probes)
                 /\ i # poll_probe
                 /\ \A t \in DOMAIN threads : threads[t].probe # i)

\* C9's case: a no-route Probe exists while another Probe has been dispatched
\* and is tracked.
C9_Witness ==
    /\ \E i \in DOMAIN probes : probes[i].failcode = NO_ROUTE
    /\ pending_probes # <<>>

\* C10: choose_target returns None only when every Target is final, and once
\* every Target is final every query of choose_target returns None.
C10_NoneIffExhausted ==
    /\ [](\A t \in DOMAIN threads : threads[t].pc = "exit" => AllFinal)
    /\ [][\A t \in DOMAIN threads :
             Queried(t) => (threads'[t].pc = "exit" <=> AllFinal)]_vars

\* C10's case: the pool of N targets exhausted by N no-route answers, and a
\* thread that got None.
C10_Witness ==
    /\ AllFinal
    /\ Len(probes) = Cardinality(Targets)
    /\ \A i \in DOMAIN probes : probes[i].failcode = NO_ROUTE
    /\ \E t \in DOMAIN threads : threads[t].pc = "exit"

\* the scheduler ran start_probe
IssuanceRun ==
    \E n \in next_runs : n[2] = "start_probe" /\ n \notin next_runs'

\* choose_target has returned None to some probe thread
Exhausted == \E t \in DOMAIN threads : threads[t].pc = "exit"

\* C11: once choose_target has returned None, the scheduler starts no further
\* issuance action, while poll_payments and clear_temporary_exclusion stay
\* scheduled.
C11_ExhaustionEndsIssuance ==
    /\ [][Exhausted => ~IssuanceRun]_vars
    /\ [](Exhausted /\ sched_pc = "loop" =>
             \A task \in {"poll_payments", "clear_temporary_exclusion"} :
                 \E n \in next_runs : n[2] = task)

\* C12: a classification with failcode 16399 leaves the destination Target
\* final and changes neither the permanent nor the temporary exclusions.
C12_UnknownDetailsMarksFinal ==
    [][\A i \in DOMAIN probes :
          Classified(i) /\ probes'[i].failcode = UNKNOWN_PAYMENT_DETAILS =>
              /\ final'[probes[i].destination]
              /\ exclusions' = exclusions
              /\ temporary_exclusions' = temporary_exclusions]_vars

\* C12's case: a Probe classified with 16399, the only Probe of its Target,
\* and that Target final.
C12_Witness ==
    \E i \in DOMAIN probes :
        /\ probes[i].failcode = UNKNOWN_PAYMENT_DETAILS
        /\ probes[i].finished_at # NULL
        /\ final[probes[i].destination]
        /\ \A j \in DOMAIN probes :
               probes[j].destination = probes[i].destination => j = i

\* The Probes that complete_probe classified with a permanent code at edge e
ClassifiedPermanent(e) ==
    {i \in DOMAIN probes : /\ probes[i].finished_at # NULL
                           /\ probes[i].failcode \in PermanentCodes
                           /\ probes[i].erring_channel = e}

\* The Probes that complete_probe classified with a temporary code at edge e
ClassifiedTemporary(e) ==
    {i \in DOMAIN probes : /\ probes[i].finished_at # NULL
                           /\ probes[i].failcode \in TemporaryCodes
                           /\ probes[i].erring_channel = e}

\* C13: no update of the exclusions is lost.  The permanent list holds an
\* edge once for every classification that appended it; a temporary
\* classification leaves the edge excluded with the expiry of that
\* classification, never an earlier one, and the entry of an edge is never
\* older than the latest classification at that edge.
C13_NoExclusionUpdateLost ==
    /\ [](\A e \in Edges :
             /\ Cardinality({k \in DOMAIN exclusions : exclusions[k] = e})
                    = Cardinality(ClassifiedPermanent(e))
             /\ \A i \in ClassifiedTemporary(e) :
                    e \in DOMAIN temporary_exclusions =>
                        temporary_exclusions[e]
                            >= probes[i].finished_at + ExclusionDuration)
    /\ [][\A i \in DOMAIN probes :
             Classified(i) /\ probes'[i].failcode \in TemporaryCodes =>
                 LET e == probes'[i].erring_channel
                 IN  /\ e \in ExcludeArg'
                     /\ temporary_exclusions'[e] = now + ExclusionDuration
                     /\ e \in DOMAIN temporary_exclusions =>
                            temporary_exclusions'[e] >= temporary_exclusions[e]]_vars

\* C13's case: two Probes against distinct destinations, in flight together,
\* classified temporarily at the same edge at different times, with the later
\* expiry in the map.
C13_Witness ==
    \E i, j \in DOMAIN probes :
        /\ probes[i].destination # probes[j].destination
        /\ probes[i].finished_at # NULL /\ probes[j].finished_at # NULL
        /\ probes[i].erring_channel = probes[j].erring_channel
        /\ probes[i].failcode \in TemporaryCodes
        /\ probes[j].failcode \in TemporaryCodes
        /\ probes[i].finished_at < probes[j].finished_at
        /\ probes[j].erring_channel \in DOMAIN temporary_exclusions
        /\ temporary_exclusions[probes[j].erring_channel]
               = probes[j].finished_at + ExclusionDuration

\* C14: the Probe row (destination, route, payment identifier) is committed
\* before sendpay is called for it: a thread about to call sendpay holds a row
\* of the table with its route, and every payment handed to the node is that
\* of a row committed by an earlier step.
C14_CommittedBeforeDispatch ==
    /\ [](\A t \in DOMAIN threads :
             threads[t].pc = "sendpay" =>
                 /\ threads[t].probe \in DOMAIN probes
                 /\ probes[threads[t].probe].destination \in Targets
                 /\ probes[threads[t].probe].route # {}
                 /\ threads[t].probe \notin payments)
    /\ [](\A p \in payments : p \in DOMAIN probes /\ probes[p].route # {})
    /\ [][\A p \in payments' \ payments :
             p \in DOMAIN probes /\ probes[p].route # {} /\ ~Inserted]_vars

\* C14's case: a payment has been dispatched for one Probe while another
\* thread holds a committed Probe and is about to dispatch it.
C14_Witness ==
    /\ \E p \in payments : probes[p].failcode = NULL
    /\ \E t \in DOMAIN threads : threads[t].pc = "sendpay"

\* The tracked probes that the running poll_payments has still to query
Unvisited ==
    {pending_probes[k] : k \in (poll_idx + 1)..Len(pending_probes)}

\* C15: within one run of poll_payments every tracked probe is queried: a step
\* of the for loop takes only the probe it queries out of those still to be
\* queried.
C15_TickQueriesEveryTracked ==
    [][sched_pc = "poll" /\ poll_idx' # poll_idx =>
           Unvisited \ {pending_probes[poll_idx + 1]} \subseteq Unvisited']_vars

\* C16: a run of the cleanup task at time now removes exactly the temporary
\* entries with expiry <= now, keeps the others with their expiry, and leaves
\* the permanent exclusions, the tracker and the Target and Probe rows alone;
\* no other step removes a temporary entry.
C16_CleanupRemovesExactlyExpired ==
    [][/\ Cleared =>
              /\ DOMAIN temporary_exclusions' =
                     {e \in DOMAIN temporary_exclusions : temporary_exclusions[e] > now'}
              /\ \A e \in DOMAIN temporary_exclusions' :
                     /\ e \in DOMAIN temporary_exclusions
                     /\ temporary_exclusions'[e] = temporary_exclusions[e]
              /\ UNCHANGED <<exclusions, pending_probes, final, probes>>
       /\ ~Cleared =>
              DOMAIN temporary_exclusions \subseteq DOMAIN temporary_exclusions']_vars

\* The interval schedule() gives each task
IntervalOf(task) ==
    CASE task = "clear_temporary_exclusion" -> ClearInterval
      [] task = "start_probe" -> ProbeInterval
      [] task = "poll_payments" -> PollInterval

\* The heap holds each of the three tasks exactly once, with its interval
HeapComplete ==
    /\ Cardinality(next_runs) = Cardinality(Tasks)
    /\ \A task \in Tasks :
           \E n \in next_runs : n[2] = task /\ n[3] = IntervalOf(task)

\* C17: the task run is one of smallest time in the heap and is not run
\* before that time; after its action it is pushed back with the time after
\* the action plus its interval; unless an iteration is under way the heap
\* holds each of the three tasks exactly once.
C17_SchedulerOrderAndReinsertion ==
    /\ [][\A n \in next_runs :
             n \notin next_runs' => IsMin(n) /\ now' >= n[1]]_vars
    /\ [][sched_pc # "warmup" =>
             \A n \in next_runs' \ next_runs : n[1] = now' + IntervalOf(n[2])]_vars
    /\ [](sched_pc \notin {"warmup", "poll", "complete"} => HeapComplete)

\* The rows of the probes table with destination node
ProbesOf(node) == {i \in DOMAIN probes : probes[i].destination = node}

\* C18: the commit of a Probe with a route that brings the Target's probes
\* above MAX_PROBES_PER_TARGET leaves the Target final, and no Target is the
\* destination of more than MAX_PROBES_PER_TARGET + 1 Probes.
C18_ProbesPerTargetBounded ==
    /\ [][\A t \in DOMAIN threads :
             /\ threads[t].pc = "getroute" /\ threads'[t].pc = "sendpay"
             /\ Cardinality(ProbesOf(threads[t].node)) + 1 > MAX_PROBES_PER_TARGET
             => final'[threads[t].node]]_vars
    /\ [](\A node \in Targets :
             Cardinality(ProbesOf(node)) <= MAX_PROBES_PER_TARGET + 1)

\* C19: getroute is given an edge as excluded exactly when the edge is in the
\* permanent exclusions or has an unexpired temporary entry (an entry whose
\* expiry is the present time may count either way).
C19_ExpiredNotForbidden ==
    [][\A t \in DOMAIN threads :
          RouteAsked(t) =>
              /\ Range(exclusions) \cup
                     {e \in DOMAIN temporary_exclusions : temporary_exclusions[e] > now}
                     \subseteq threads'[t].exclude
              /\ threads'[t].exclude \subseteq Range(exclusions) \cup
                     {e \in DOMAIN temporary_exclusions : temporary_exclusions[e] >= now}]_vars

\* complete_probe has stamped probe i
Finished(i) == i \in DOMAIN probes /\ probes[i].finished_at # NULL

\* probe i has an entry in plugin.pending_probes
Tracked(i) == i \in Range(pending_probes)

\* C20, no loss: a probe whose sendpay was accepted gets one entry in the
\* tracker, an entry leaves the tracker only by poll_payments handing the
\* probe to complete_probe, only a probe handed over is classified, and a
\* classified probe is stamped and never tracked or classified again.
C20_NoLoss ==
    /\ [](\A i \in ProbeIds :
             /\ Cardinality({k \in DOMAIN pending_probes : pending_probes[k] = i}) <= 1
             /\ Finished(i) => ~Tracked(i) /\ poll_probe # i
             /\ poll_probe = i => ~Tracked(i))
    /\ [][/\ \A t \in DOMAIN threads :
                 /\ threads[t].pc = "sendpay" /\ threads'[t].pc = "done"
                 /\ probes'[threads[t].probe].failcode = NULL
                 => /\ ~Tracked(threads[t].probe)
                    /\ pending_probes' = Append(pending_probes, threads[t].probe)
          /\ \A i \in Range(pending_probes) \ Range(pending_probes') :
                 sched_pc = "poll" /\ poll_probe' = i
          /\ \A i \in DOMAIN probes :
                 /\ Classified(i) => poll_probe = i /\ poll_probe' # i
                 /\ probes[i].finished_at # NULL =>
                        probes'[i].finished_at = probes[i].finished_at]_vars

\* C20: no loss, and while the scheduler keeps polling every tracked probe
\* whose payment gets a status other than pending is eventually classified,
\* and so is every probe that has left the tracker.
C20_TrackedEventuallyFinished ==
    /\ C20_NoLoss
    /\ \A i \in ProbeIds : Tracked(i) ~> Finished(i)
    /\ \A i \in ProbeIds : (poll_probe = i) ~> Finished(i)

\* C20's case: two probes were tracked together and both are classified, the
\* tracker is empty again.
C20_Witness ==
    /\ pending_probes = <<>>
    /\ \E i, j \in DOMAIN probes :
           /\ i # j
           /\ i \in payments /\ j \in payments
           /\ probes[i].finished_at # NULL /\ probes[j].finished_at # NULL

====
